---- MODULE Spec2Model ----
(***************************************************************************)
(* TinnyGrep: the line matcher of src/lib.rs (search,                      *)
(* search_case_insensitive), the library's Config::build and run, and the  *)
(* binary of src/main.rs.                                                  *)
(*                                                                         *)
(* A string is a sequence of characters; a character is one of the names   *)
(* below.  "SIGMA" is U+03A3, "sigma" is U+03C3, "fsigma" is U+03C2,       *)
(* "LF" is U+000A, "CR" is U+000D and "DOT" is U+002E.                     *)
(***************************************************************************)
EXTENDS Integers, Sequences, FiniteSets, TLC

\* Bounds of the checked input space.
MaxDocLen == 3
MaxQueryLen == 2
MaxFileLen == 3
MaxArgLen == 1

\* The characters documents and queries are drawn from.
Alphabet == {"a", "A", "SIGMA", "DOT", "CR", "LF"}

\* The characters queries are drawn from, and those of the files the command
\* line tools read.
QueryAlphabet == {"a", "A", "SIGMA", "CR"}

FileAlphabet == {"a", "A", "CR", "LF"}

Strings(S, n) == UNION {[1..k -> S] : k \in 0..n}

Queries == Strings(QueryAlphabet, MaxQueryLen)

Documents == Strings(Alphabet, MaxDocLen)

\* argv[0] and the one path the command lines name.
ProgName == <<"a">>

FilePath == <<"a">>

ArgLists ==
    {<<ProgName>>}
    \cup {<<ProgName, q>> : q \in Strings(QueryAlphabet, MaxArgLen)}
    \cup {<<ProgName, q, FilePath>> : q \in Strings(QueryAlphabet, MaxArgLen)}
    \cup {<<ProgName, q, FilePath, FilePath>> :
              q \in Strings(QueryAlphabet, MaxArgLen)}

\* What fs::read_to_string can yield for FilePath.
Files ==
    {[ok |-> FALSE, contents |-> <<>>]}
    \cup {[ok |-> TRUE, contents |-> d] : d \in Strings(FileAlphabet, MaxFileLen)}

VARIABLES
    query,        \* search(query, _) argument
    contents,     \* search(_, contents) argument
    legacy,       \* TRUE: the toolchain's str::lines strips a bare final CR
    sensitive,    \* what search returned, or NotCalled
    insensitive,  \* what search_case_insensitive returned, or NotCalled
    args,         \* the command line, program name first
    envSet,       \* NO_IGNORE_CASE is present in the environment
    file,         \* what fs::read_to_string yields for the path
    pc,           \* position of the library client or of the binary's main
    config,       \* value of Config::build
    invoked,      \* the search function run has called, or "none"
    fileRead,     \* fs::read_to_string has been called
    runResult,    \* value of run
    stdout,       \* the text printed so far, one element per println!
    runPrinted,   \* the number of elements of stdout printed inside run
    exitCode      \* the process's exit status once pc = "exited"

vars == <<query, contents, legacy, sensitive, insensitive, args, envSet, file,
          pc, config, invoked, fileRead, runResult, stdout, runPrinted, exitCode>>

cliVars == <<args, envSet, file, pc, config, invoked, fileRead, runResult,
             stdout, runPrinted, exitCode>>

NotCalled == "NotCalled"

----------------------------------------------------------------------------
\* str::lines, str::contains and str::to_lowercase as the matcher uses them.

\* A line's text once its "\n" is removed: a "\r" right before it goes too.
StripCR(piece) ==
    IF Len(piece) > 0 /\ piece[Len(piece)] = "CR"
    THEN SubSeq(piece, 1, Len(piece) - 1)
    ELSE piece

\* The last piece of the document when no "\n" ends it.  Older standard
\* libraries strip a "\r" that ends it (split_terminator + a per-line strip),
\* newer ones return it as it is (split_inclusive + strip_suffix); the source
\* pins no toolchain, so either can be the build's.
LastPiece(piece, old) == IF old THEN StripCR(piece) ELSE piece

RECURSIVE LinesFrom(_, _, _, _)
LinesFrom(d, i, piece, old) ==
    IF i > Len(d)
    THEN IF piece = <<>> THEN <<>> ELSE <<LastPiece(piece, old)>>
    ELSE IF d[i] = "LF"
         THEN <<StripCR(piece)>> \o LinesFrom(d, i + 1, <<>>, old)
         ELSE LinesFrom(d, i + 1, Append(piece, d[i]), old)

\* Faulty lines: splits at "\n" and strips no "\r".
lines_keep_cr(d, old) ==
    LET RECURSIVE Split(_, _)
        Split(i, piece) ==
            IF i > Len(d)
            THEN IF piece = <<>> THEN <<>> ELSE <<piece>>
            ELSE IF d[i] = "LF"
                 THEN <<piece>> \o Split(i + 1, <<>>)
                 ELSE Split(i + 1, Append(piece, d[i]))
    IN  Split(1, <<>>)

lines(d, old) == LinesFrom(d, 1, <<>>, old)

\* Faulty contains: the empty needle is found nowhere.
contains_nonempty_only(haystack, needle) ==
    /\ needle # <<>>
    /\ \E i \in 1..Len(haystack) :
          /\ i + Len(needle) - 1 <= Len(haystack)
          /\ SubSeq(haystack, i, i + Len(needle) - 1) = needle

RECURSIVE ContainsFrom(_, _, _)
ContainsFrom(haystack, needle, i) ==
    IF i + Len(needle) - 1 > Len(haystack)
    THEN FALSE
    ELSE IF SubSeq(haystack, i, i + Len(needle) - 1) = needle
         THEN TRUE
         ELSE ContainsFrom(haystack, needle, i + 1)

contains(haystack, needle) == ContainsFrom(haystack, needle, 1)

\* Unicode's Cased and Case_Ignorable properties on the characters in use.
Cased == {"a", "A", "SIGMA", "sigma", "fsigma"}

Case_Ignorable == {"DOT"}

\* The first character of s[from], s[from + step], ... that is not
\* Case_Ignorable exists and is Cased.
RECURSIVE case_ignorable_then_cased(_, _, _)
case_ignorable_then_cased(s, from, step) ==
    IF from < 1 \/ from > Len(s)
    THEN FALSE
    ELSE IF s[from] \in Case_Ignorable
         THEN case_ignorable_then_cased(s, from + step, step)
         ELSE s[from] \in Cased

map_uppercase_sigma(s, i) ==
    IF /\ case_ignorable_then_cased(s, i - 1, -1)
       /\ ~case_ignorable_then_cased(s, i + 1, 1)
    THEN "fsigma"
    ELSE "sigma"

to_lower(s, i) ==
    CASE s[i] = "A" -> "a"
      [] s[i] = "SIGMA" -> map_uppercase_sigma(s, i)
      [] OTHER -> s[i]

to_lowercase(s) == [i \in 1..Len(s) |-> to_lower(s, i)]

----------------------------------------------------------------------------
\* The line matcher.

RECURSIVE FilterSensitive(_, _)
FilterSensitive(ls, q) ==
    IF ls = <<>>
    THEN <<>>
    ELSE (IF contains(Head(ls), q) THEN <<Head(ls)>> ELSE <<>>)
         \o FilterSensitive(Tail(ls), q)

RECURSIVE FilterInsensitive(_, _)
FilterInsensitive(ls, q) ==
    IF ls = <<>>
    THEN <<>>
    ELSE (IF contains(to_lowercase(Head(ls)), q) THEN <<Head(ls)>> ELSE <<>>)
         \o FilterInsensitive(Tail(ls), q)

\* Faulty variants of search: one drops repeated lines, one stops after the
\* first line.
RECURSIVE Dedup(_)
Dedup(ls) ==
    IF ls = <<>>
    THEN <<>>
    ELSE LET rest == Dedup(SubSeq(ls, 1, Len(ls) - 1))
             last == ls[Len(ls)]
         IN  IF \E i \in 1..Len(rest) : rest[i] = last
             THEN rest
             ELSE Append(rest, last)

search_first_line_only(q, c, old) ==
    LET ls == lines(c, old)
    IN  IF ls = <<>> THEN <<>> ELSE FilterSensitive(<<Head(ls)>>, q)

search_dedup(q, c, old) == Dedup(FilterSensitive(lines(c, old), q))

search(q, c, old) == FilterSensitive(lines(c, old), q)

\* Faulty search_case_insensitive: the query is not lowercased.
search_case_insensitive_raw_query(q, c, old) ==
    FilterInsensitive(lines(c, old), q)

search_case_insensitive(q, c, old) ==
    FilterInsensitive(lines(c, old), to_lowercase(q))

----------------------------------------------------------------------------
\* A caller of the two search functions.

CliIdle ==
    /\ args = <<>>
    /\ envSet = FALSE
    /\ file = [ok |-> FALSE, contents |-> <<>>]
    /\ pc = "idle"
    /\ config = "none"
    /\ invoked = "none"
    /\ fileRead = FALSE
    /\ runResult = "none"
    /\ stdout = <<>>
    /\ runPrinted = 0
    /\ exitCode = 0

SearchInit ==
    /\ query \in Queries
    /\ contents \in Documents
    /\ legacy \in BOOLEAN
    /\ sensitive = NotCalled
    /\ insensitive = NotCalled
    /\ CliIdle

CallSearch ==
    /\ sensitive = NotCalled
    /\ sensitive' = search(query, contents, legacy)
    /\ UNCHANGED <<query, contents, legacy, insensitive>>
    /\ UNCHANGED cliVars

CallSearchCaseInsensitive ==
    /\ insensitive = NotCalled
    /\ insensitive' = search_case_insensitive(query, contents, legacy)
    /\ UNCHANGED <<query, contents, legacy, sensitive>>
    /\ UNCHANGED cliVars

SearchNext == CallSearch \/ CallSearchCaseInsensitive

SearchSpec == SearchInit /\ [][SearchNext]_vars

----------------------------------------------------------------------------
\* The library's command line layer (src/lib.rs).

Config_build(a, env) ==
    IF Len(a) < 2
    THEN [status |-> "Err", err |-> "didn't get query string"]
    ELSE IF Len(a) < 3
         THEN [status |-> "Err", err |-> "no file path passed"]
         ELSE [status |-> "Ok", query |-> a[2], file_path |-> a[3],
               ignore_case |-> env]

\* Faulty run: a failed read counts as an empty file.
run_searches_unread_file(cfg, f, old) ==
    LET c == IF f.ok THEN f.contents ELSE <<>>
    IN  IF cfg.ignore_case
        THEN [result |-> "Ok", invoked |-> "search",
              printed |-> search(cfg.query, c, old)]
        ELSE [result |-> "Ok", invoked |-> "search_case_insensitive",
              printed |-> search_case_insensitive(cfg.query, c, old)]

\* The value of run, the search function it called and the lines it printed.
run(cfg, f, old) ==
    IF ~f.ok
    THEN [result |-> "Err", invoked |-> "none", printed |-> <<>>]
    ELSE IF cfg.ignore_case
         THEN [result |-> "Ok", invoked |-> "search",
               printed |-> search(cfg.query, f.contents, old)]
         ELSE [result |-> "Ok", invoked |-> "search_case_insensitive",
               printed |-> search_case_insensitive(cfg.query, f.contents, old)]

\* One element of stdout per println!: what printed it and its argument.
PrintedLines(ls) == [n \in 1..Len(ls) |-> <<"line", ls[n]>>]

LibBuild ==
    /\ pc = "start"
    /\ config' = Config_build(args, envSet)
    /\ pc' = IF config'.status = "Ok" THEN "lib_built" ELSE "lib_done"
    /\ UNCHANGED <<query, contents, legacy, sensitive, insensitive, args,
                   envSet, file, invoked, fileRead, runResult, stdout,
                   runPrinted, exitCode>>

LibRun ==
    /\ pc = "lib_built"
    /\ LET r == run(config, file, legacy)
       IN  /\ fileRead' = TRUE
           /\ runResult' = r.result
           /\ invoked' = r.invoked
           /\ stdout' = stdout \o PrintedLines(r.printed)
           /\ runPrinted' = runPrinted + Len(r.printed)
    /\ pc' = "lib_done"
    /\ UNCHANGED <<query, contents, legacy, sensitive, insensitive, args,
                   envSet, file, config, exitCode>>

----------------------------------------------------------------------------
\* The binary (src/main.rs).

main_Config_build(a) ==
    IF Len(a) # 3
    THEN [status |-> "Panic",
          err |-> "please, enter just 2 arguments, the word you want find and the file path"]
    ELSE [status |-> "Ok", query |-> a[2], file_path |-> a[3]]

main_run(cfg, f) ==
    IF ~f.ok
    THEN [result |-> "Err", printed |-> <<>>]
    ELSE [result |-> "Ok", printed |-> <<<<"With text: \n ", f.contents>>>>]

\* main, up to println!("{:?}", args).
MainPrintArgs ==
    /\ pc = "start"
    /\ stdout' = Append(stdout, <<"args", args>>)
    /\ pc' = "main_build"
    /\ UNCHANGED <<query, contents, legacy, sensitive, insensitive, args,
                   envSet, file, config, invoked, fileRead, runResult,
                   runPrinted, exitCode>>

\* main's Config::build(&args).unwrap_or_else(..); a panic ends the process
\* with status 101.
MainBuild ==
    /\ pc = "main_build"
    /\ config' = main_Config_build(args)
    /\ CASE config'.status = "Panic" ->
              /\ exitCode' = 101
              /\ pc' = "exited"
              /\ UNCHANGED stdout
         [] config'.status = "Err" ->
              /\ stdout' = Append(stdout,
                                  <<"problem parsing arguments: ", config'.err>>)
              /\ exitCode' = 1
              /\ pc' = "exited"
         [] OTHER ->
              /\ pc' = "main_run"
              /\ UNCHANGED <<stdout, exitCode>>
    /\ UNCHANGED <<query, contents, legacy, sensitive, insensitive, args,
                   envSet, file, invoked, fileRead, runResult, runPrinted>>

\* main's if let Err(e) = run(config) { .. } and its return.
MainRun ==
    /\ pc = "main_run"
    /\ LET r == main_run(config, file)
       IN  /\ fileRead' = TRUE
           /\ runResult' = r.result
           /\ runPrinted' = runPrinted + Len(r.printed)
           /\ IF r.result = "Err"
              THEN /\ stdout' = Append(stdout \o r.printed,
                                       <<"application error: ", "io error">>)
                   /\ exitCode' = 1
              ELSE /\ stdout' = stdout \o r.printed
                   /\ exitCode' = 0
    /\ pc' = "exited"
    /\ UNCHANGED <<query, contents, legacy, sensitive, insensitive, args,
                   envSet, file, config, invoked>>

Init ==
    /\ args \in ArgLists
    /\ envSet \in BOOLEAN
    /\ file \in Files
    /\ legacy \in BOOLEAN
    /\ pc = "start"
    /\ config = "none"
    /\ invoked = "none"
    /\ fileRead = FALSE
    /\ runResult = "none"
    /\ stdout = <<>>
    /\ runPrinted = 0
    /\ exitCode = 0
    /\ query = <<>>
    /\ contents = <<>>
    /\ sensitive = NotCalled
    /\ insensitive = NotCalled

Next == LibBuild \/ LibRun \/ MainPrintArgs \/ MainBuild \/ MainRun

Spec == Init /\ [][Next]_vars

----------------------------------------------------------------------------
\* Vocabulary of the properties.

\* q occurs in l as a contiguous run of equal characters.
HasSubstring(l, q) ==
    \E i \in 1..(Len(l) + 1) :
        /\ i + Len(q) - 1 <= Len(l)
        /\ \A j \in 1..Len(q) : l[i + j - 1] = q[j]

\* The n-th smallest element of a set of integers.
Nth(S, n) == CHOOSE k \in S : Cardinality({m \in S : m < k}) = n - 1

\* The elements of ls at the indices idx, in increasing index order.
Selected(ls, idx) == [n \in 1..Cardinality(idx) |-> ls[Nth(idx, n)]]

SensitiveIdx(ls, q) == {k \in 1..Len(ls) : HasSubstring(ls[k], q)}

InsensitiveIdx(ls, q) ==
    {k \in 1..Len(ls) : HasSubstring(to_lowercase(ls[k]), to_lowercase(q))}

RECURSIVE IsSubsequence(_, _)
IsSubsequence(r, ls) ==
    IF r = <<>>
    THEN TRUE
    ELSE IF ls = <<>>
         THEN FALSE
         ELSE IF Head(r) = Head(ls)
              THEN IsSubsequence(Tail(r), Tail(ls))
              ELSE IsSubsequence(r, Tail(ls))

Count(ls, v) == Cardinality({k \in 1..Len(ls) : ls[k] = v})

KeepsMultiplicity(r, ls) ==
    \A k \in 1..Len(r) : Count(r, r[k]) = Count(ls, r[k])

\* The document cut at every "\n", by position: a line starts at 1 and after
\* every "\n", and runs up to the next "\n" or to the end of the document.
\* With strip, a "\r" standing right before the "\n" is left out of the line.
LineStarts(d) ==
    {s \in 1..Len(d) : s = 1 \/ d[s - 1] = "LF"}

LineEnd(d, s) ==
    IF \E e \in s..Len(d) : d[e] = "LF"
    THEN CHOOSE e \in s..Len(d) :
             /\ d[e] = "LF"
             /\ \A m \in s..(e - 1) : d[m] # "LF"
    ELSE Len(d) + 1

LineText(d, s, strip) ==
    LET e == LineEnd(d, s)
    IN  IF strip /\ e <= Len(d) /\ e - 1 >= s /\ d[e - 1] = "CR"
        THEN SubSeq(d, s, e - 2)
        ELSE SubSeq(d, s, e - 1)

SplitAtLF(d, strip) ==
    [n \in 1..Cardinality(LineStarts(d)) |->
        LineText(d, Nth(LineStarts(d), n), strip)]

EndsWithCR(d) == Len(d) > 0 /\ d[Len(d)] = "CR"

----------------------------------------------------------------------------
\* Properties of the line matcher, checked under SearchSpec.

\* C1: search(Q, D) returns exactly the lines of D that contain Q as a
\* contiguous exact-case substring, in document order.
C1_SearchExactLines ==
    sensitive # NotCalled =>
        LET ls == lines(contents, legacy)
        IN  /\ \A k \in 1..Len(sensitive) : HasSubstring(sensitive[k], query)
            /\ sensitive = Selected(ls, SensitiveIdx(ls, query))

C1_Witness ==
    /\ sensitive # NotCalled
    /\ Len(query) = 2
    /\ Len(sensitive) = 1
    /\ Len(lines(contents, legacy)) = 2

\* C2: search_case_insensitive(Q, D) returns exactly the lines L of D whose
\* lowercase contains the lowercase of Q, in document order, each as the
\* original text of the line.
C2_InsensitiveExactLines ==
    insensitive # NotCalled =>
        LET ls == lines(contents, legacy)
        IN  insensitive = Selected(ls, InsensitiveIdx(ls, query))

C2_Witness ==
    /\ insensitive # NotCalled
    /\ query = <<"A">>
    /\ insensitive = <<<<"a">>>>
    /\ Len(lines(contents, legacy)) = 2

\* C4: every line search(Q, D) returns is also returned by
\* search_case_insensitive(Q, D).
C4_InsensitiveSuperset ==
    (sensitive # NotCalled /\ insensitive # NotCalled) =>
        \A k \in 1..Len(sensitive) :
            \E m \in 1..Len(insensitive) : insensitive[m] = sensitive[k]

\* C5: the result of either search function is a subsequence of the
\* document's lines, and a returned line occurs in the result as many times
\* as in the document.
C5_ResultIsSubsequence ==
    LET ls == lines(contents, legacy)
    IN  /\ sensitive # NotCalled =>
            IsSubsequence(sensitive, ls) /\ KeepsMultiplicity(sensitive, ls)
        /\ insensitive # NotCalled =>
            IsSubsequence(insensitive, ls) /\ KeepsMultiplicity(insensitive, ls)

C5_Witness ==
    /\ sensitive # NotCalled
    /\ insensitive # NotCalled
    /\ Len(sensitive) = 2
    /\ sensitive[1] = sensitive[2]
    /\ insensitive = sensitive

\* C6: with the empty query both search functions return every line of the
\* document, in document order.
C6_EmptyQueryReturnsAll ==
    query = <<>> =>
        /\ sensitive # NotCalled => sensitive = lines(contents, legacy)
        /\ insensitive # NotCalled => insensitive = lines(contents, legacy)

C6_Witness ==
    /\ query = <<>>
    /\ sensitive # NotCalled
    /\ insensitive # NotCalled
    /\ Len(sensitive) = 2
    /\ Len(insensitive) = 2
    /\ sensitive[1] # sensitive[2]

\* C7 as stated: the document is split on "\n" only and no "\r" is ever
\* stripped, so a line ended by "\r\n" is matched and returned with its
\* "\r", in both search functions.
C7_NoCRStripped ==
    ~EndsWithCR(contents) =>
        LET ls == SplitAtLF(contents, FALSE)
        IN  /\ sensitive # NotCalled =>
                sensitive = Selected(ls, SensitiveIdx(ls, query))
            /\ insensitive # NotCalled =>
                insensitive = Selected(ls, InsensitiveIdx(ls, query))

\* C7 amended: the document is split at every "\n"; a "\r" standing right
\* before that "\n" is removed with it, and a "\r" followed by any other
\* character stays in the line, in both search functions.
C7_CRStrippedBeforeLF ==
    ~EndsWithCR(contents) =>
        LET ls == SplitAtLF(contents, TRUE)
        IN  /\ sensitive # NotCalled =>
                sensitive = Selected(ls, SensitiveIdx(ls, query))
            /\ insensitive # NotCalled =>
                insensitive = Selected(ls, InsensitiveIdx(ls, query))

C7_Witness ==
    /\ contents = <<"CR", "CR", "LF">>
    /\ query = <<"CR">>
    /\ sensitive # NotCalled
    /\ insensitive # NotCalled
    /\ sensitive = <<<<"CR">>>>
    /\ insensitive = <<<<"CR">>>>

----------------------------------------------------------------------------
\* Properties of the command line layer, checked under Spec.

ReadOk == fileRead /\ file.ok

ReadFailed == fileRead /\ ~file.ok

\* C3: with the environment variable present Config::build sets ignore_case
\* and run performs the case-insensitive search; with it absent ignore_case
\* is false and run performs the case-sensitive search.
C3_ToggleSelectsMode ==
    (pc = "lib_done" /\ ReadOk) =>
        /\ config.ignore_case = envSet
        /\ invoked = IF envSet THEN "search_case_insensitive" ELSE "search"

\* C8: with fewer than two arguments after the program name, argument
\* parsing yields an error value that tells a missing query from a missing
\* file path, and the process exits with a non-zero status without reading
\* the file or searching.
C8_MissingArgsIsConfigError ==
    (Len(args) < 3 /\ pc \in {"lib_done", "exited"}) =>
        /\ config.status = "Err"
        /\ config.err = IF Len(args) < 2
                        THEN "didn't get query string"
                        ELSE "no file path passed"
        /\ ~fileRead
        /\ invoked = "none"
        /\ pc = "exited" => exitCode # 0

\* C9: when reading the file fails, run returns an error, calls neither
\* search function and prints nothing, and the process exits with a non-zero
\* status.
C9_ReadFailureStopsRun ==
    ReadFailed =>
        /\ runResult = "Err"
        /\ invoked = "none"
        /\ runPrinted = 0
        /\ \A k \in 1..Len(stdout) :
               stdout[k][1] \in {"args", "application error: "}
        /\ pc = "exited" => exitCode # 0

C9_Witness ==
    /\ ReadFailed
    /\ pc = "exited"
    /\ exitCode = 1
    /\ stdout[Len(stdout)] = <<"application error: ", "io error">>

\* C10: when the file is read, the program prints exactly the lines the line
\* matcher returns for the query, one println! per line, in document order,
\* and nothing else.
C10_PrintsExactlyMatches ==
    (ReadOk /\ pc \in {"lib_done", "exited"}) =>
        stdout \in {PrintedLines(search(args[2], file.contents, legacy)),
                    PrintedLines(search_case_insensitive(args[2], file.contents,
                                                         legacy))}

====
